---- MODULE Spec2Model ----
(***************************************************************************)
(* Billing entries, invoices and invoice items of the law-office database *)
(* server: the overlap-rejection triggers on billing_entries, and the     *)
(* tool handlers record_billable_time, write_query (UPDATE of a billing   *)
(* entry), create_invoice, add_billing_to_invoice, check_invoice_validity *)
(* and submit_invoice.  Every handler runs to completion before the next  *)
(* one starts; every write statement is one transaction.                  *)
(*                                                                         *)
(* Timestamps are integers 0..MaxTime (the program compares the stored    *)
(* values with <, <=, >, >=).  Rows are identified by their position in   *)
(* their table (the integer primary key SQLite assigns on insert).        *)
(*                                                                         *)
(* calls holds, per client, the handler call that client has in flight    *)
(* between two of its statements; it is used by the specifications that   *)
(* interleave the statements of concurrent calls, and every client is     *)
(* idle in the others.                                                    *)
(***************************************************************************)
EXTENDS Integers, Sequences, FiniteSets

VARIABLES billing_entries, client_invoices, invoice_billing_items, last,
          calls

vars == <<billing_entries, client_invoices, invoice_billing_items, last,
          calls>>

db == <<billing_entries, client_invoices, invoice_billing_items>>

----------------------------------------------------------------------------
(* Bounds of the model.                                                    *)

MaxEntries == 2

MaxInvoices == 2

MaxTime == 2

NumMatters == 2

(* Clients that issue handler calls concurrently.                         *)
NumClients == 2

Matters == 1..NumMatters

Clients == 1..NumClients

Times == 0..MaxTime

(* Intervals a caller supplies: start <= stop (zero duration included).    *)
Intervals == {iv \in Times \X Times : iv[1] <= iv[2]}

(* Identifiers a caller may pass: the existing ones and one that does not  *)
(* exist (0; AUTOINCREMENT keys start at 1).                               *)
MatterArgs == 0..NumMatters

BillingArgs == 0..MaxEntries

InvoiceArgs == 0..MaxInvoices

----------------------------------------------------------------------------
(* Queries over the tables.                                                *)

BillingIds == 1..Len(billing_entries)

InvoiceIds == 1..Len(client_invoices)

(* The overlap test with every comparison strict: bounds that coincide    *)
(* with the existing row's are not seen as overlapping.                   *)
OverlapConditionsStrict(ns, ne, bs, be) ==
    \/ (ns > bs /\ ns < be)
    \/ (ne > bs /\ ne < be)
    \/ (ns < bs /\ ne > be)

(* The overlap test without its third condition (new encapsulates        *)
(* existing).                                                             *)
OverlapConditionsNoEncapsulation(ns, ne, bs, be) ==
    \/ (ns >= bs /\ ns < be)
    \/ (ne > bs /\ ne <= be)

(* The overlap test both triggers apply to the new bounds (ns, ne) and the *)
(* bounds (bs, be) of an existing row.                                     *)
OverlapConditions(ns, ne, bs, be) ==
    \/ (ns >= bs /\ ns < be)
    \/ (ne > bs /\ ne <= be)
    \/ (ns <= bs /\ ne >= be)

(* The rows of the triggers' join: billing entries joined to an invoice    *)
(* item with status 'committed' of an invoice with status 'submitted'.     *)
CommittedJoin ==
    {b \in BillingIds :
        \E it \in invoice_billing_items :
            /\ it.billing_id = b
            /\ it.invoice_id \in InvoiceIds
            /\ client_invoices[it.invoice_id].status = "submitted"
            /\ it.status = "committed"}

(* prevent_overlap_before_insert on the new row: TRUE when the trigger     *)
(* raises ABORT.                                                           *)
prevent_overlap_before_insert(new) ==
    \E b \in CommittedJoin :
        OverlapConditions(new.billing_start, new.billing_stop,
                          billing_entries[b].billing_start,
                          billing_entries[b].billing_stop)

(* The update trigger with the join narrowed to the new row's matter.     *)
prevent_overlap_same_matter(new) ==
    \E b \in CommittedJoin :
        /\ b # new.billing_id
        /\ billing_entries[b].matter_id = new.matter_id
        /\ OverlapConditions(new.billing_start, new.billing_stop,
                             billing_entries[b].billing_start,
                             billing_entries[b].billing_stop)

(* prevent_overlap_before_update on the new row: TRUE when the trigger     *)
(* raises ABORT.                                                           *)
prevent_overlap_before_update(new) ==
    \E b \in CommittedJoin :
        /\ b # new.billing_id
        /\ OverlapConditions(new.billing_start, new.billing_stop,
                             billing_entries[b].billing_start,
                             billing_entries[b].billing_stop)

(* The hours record_billable_time stores when the caller supplies none.   *)
DefaultHours == 1

(* The row an INSERT of record_billable_time hands to the trigger.         *)
NewRow(matter_id, billing_start, billing_stop) ==
    [matter_id |-> matter_id, billing_start |-> billing_start,
     billing_stop |-> billing_stop, billing_hours |-> DefaultHours,
     status |-> "unbilled"]

(* The row an UPDATE of the bounds of entry billing_id hands to the        *)
(* trigger: the stored row with the new bounds and its own billing_id.     *)
UpdatedRow(billing_id, new_start, new_stop) ==
    [billing_id |-> billing_id,
     matter_id |-> billing_entries[billing_id].matter_id,
     billing_start |-> new_start, billing_stop |-> new_stop,
     billing_hours |-> billing_entries[billing_id].billing_hours,
     status |-> billing_entries[billing_id].status]

----------------------------------------------------------------------------
(* The last handler call: the tool, what it returned, and the identifiers  *)
(* it was called with or returned (0 where the tool has none).             *)

Result(op, outcome, m, b, i) ==
    [op |-> op, outcome |-> outcome, matter_id |-> m, billing_id |-> b,
     invoice_id |-> i]

(* SELECT last_insert_rowid() as the handlers run it: on a connection of  *)
(* its own, on which no INSERT has run, where SQLite returns 0.           *)
last_insert_rowid == 0

(* A client with no call in flight.                                       *)
Idle == [op |-> "none", invoice_id |-> 0, billing_id |-> 0]

Init ==
    /\ billing_entries = << >>
    /\ client_invoices = << >>
    /\ invoice_billing_items = {}
    /\ last = Result("none", "ok", 0, 0, 0)
    /\ calls = [c \in Clients |-> Idle]

(* record_billable_time: what the handler returns.  case_found is the     *)
(* result of the lookup of the substantiating case file entry.  The       *)
(* INSERT runs prevent_overlap_before_insert; its ABORT surfaces as a     *)
(* database error ("conflict").                                           *)
record_outcome(matter_id, case_found, billing_start, billing_stop) ==
    IF matter_id \notin Matters \/ ~case_found THEN "not_found"
    ELSE IF prevent_overlap_before_insert(
                NewRow(matter_id, billing_start, billing_stop))
         THEN "conflict"
    ELSE "ok"

(* record_billable_time: insert of a billing entry with status 'unbilled'.*)
record_billable_time(matter_id, case_found, billing_start, billing_stop) ==
    LET o == record_outcome(matter_id, case_found, billing_start, billing_stop)
    IN  IF o = "ok"
        THEN /\ Len(billing_entries) < MaxEntries
             /\ billing_entries' = Append(billing_entries,
                    NewRow(matter_id, billing_start, billing_stop))
             /\ last' = Result("record_billable_time", o, matter_id,
                               last_insert_rowid, 0)
             /\ UNCHANGED <<client_invoices, invoice_billing_items>>
        ELSE /\ last' = Result("record_billable_time", o, matter_id, 0, 0)
             /\ UNCHANGED db

(* The calls of record_billable_time: a call whose lookups fail returns    *)
(* before it reads the bounds, so such calls are drawn with one interval.  *)
RecordBillableTime ==
    \E m \in MatterArgs, cf \in BOOLEAN, iv \in Intervals :
        /\ (m \notin Matters \/ ~cf) => iv = <<0, 0>>
        /\ record_billable_time(m, cf, iv[1], iv[2])
        /\ UNCHANGED calls

(* write_query with an UPDATE of one billing entry's bounds                *)
(* (update_billing_entry): what the handler returns.  A billing_id that   *)
(* matches no row updates nothing and reports 0 affected rows; the UPDATE *)
(* of a row runs prevent_overlap_before_update.                           *)
update_outcome(billing_id, new_start, new_stop) ==
    IF billing_id \notin BillingIds THEN "no_rows"
    ELSE IF prevent_overlap_before_update(
                UpdatedRow(billing_id, new_start, new_stop))
         THEN "conflict"
    ELSE "ok"

(* The UPDATE with the overlap check run after the row was written and    *)
(* nothing rolled back: the conflict is reported, the new bounds stay.    *)
update_without_rollback(billing_id, new_start, new_stop) ==
    LET o == update_outcome(billing_id, new_start, new_stop)
    IN  /\ last' = Result("update_billing_entry", o, 0, billing_id, 0)
        /\ IF o \in {"ok", "conflict"}
           THEN /\ billing_entries' = [billing_entries EXCEPT
                       ![billing_id].billing_start = new_start,
                       ![billing_id].billing_stop = new_stop]
                /\ UNCHANGED <<client_invoices, invoice_billing_items>>
           ELSE UNCHANGED db

update_billing_entry(billing_id, new_start, new_stop) ==
    LET o == update_outcome(billing_id, new_start, new_stop)
    IN  /\ last' = Result("update_billing_entry", o, 0, billing_id, 0)
        /\ IF o = "ok"
           THEN /\ billing_entries' = [billing_entries EXCEPT
                       ![billing_id].billing_start = new_start,
                       ![billing_id].billing_stop = new_stop]
                /\ UNCHANGED <<client_invoices, invoice_billing_items>>
           ELSE UNCHANGED db

(* The calls of update_billing_entry: an UPDATE that matches no row is     *)
(* drawn with one interval.                                               *)
UpdateBillingEntry ==
    \E b \in BillingArgs, iv \in Intervals :
        /\ b \notin BillingIds => iv = <<0, 0>>
        /\ update_billing_entry(b, iv[1], iv[2])
        /\ UNCHANGED calls

(* The value a new invoice's is_valid column takes: the INSERT of         *)
(* create_invoice does not supply it.                                     *)
is_valid_default == TRUE

(* create_invoice: a new invoice in status 'draft'.  The row's client,    *)
(* matter and invoice number are read by no handler or trigger modelled   *)
(* here and are left out of the row.                                      *)
(* The new invoice row with the is_valid column left unset.               *)
NewInvoiceFlagUnset ==
    [status |-> "draft", total_amount |-> 0, total_hours |-> 0,
     is_valid |-> FALSE]

(* The row the INSERT of create_invoice adds.                             *)
NewInvoice ==
    [status |-> "draft", total_amount |-> 0, total_hours |-> 0,
     is_valid |-> is_valid_default]

create_invoice ==
    /\ Len(client_invoices) < MaxInvoices
    /\ client_invoices' = Append(client_invoices, NewInvoice)
    /\ last' = Result("create_invoice", "ok", 0, 0, last_insert_rowid)
    /\ UNCHANGED <<billing_entries, invoice_billing_items>>

CreateInvoice == create_invoice /\ UNCHANGED calls

(* The spec's overlap predicate of two half-open intervals.               *)
HalfOpenOverlap(as, ae, bs, be) == as < be /\ bs < ae

(* Commitment Tracker: the entry is linked to a submitted invoice.        *)
Committed(b) ==
    \E it \in invoice_billing_items :
        /\ it.billing_id = b
        /\ it.invoice_id \in InvoiceIds
        /\ client_invoices[it.invoice_id].status = "submitted"

Members(invoice_id) ==
    {it.billing_id : it \in {x \in invoice_billing_items :
                                 x.invoice_id = invoice_id}}

(* prevent_double_billing: TRUE when the trigger raises ABORT because the *)
(* entry is already on a submitted invoice.                               *)
prevent_double_billing(billing_id) == Committed(billing_id)

(* add_billing_to_invoice without the test for a row of the same pair.    *)
add_billing_outcome_no_duplicate_test(invoice_id, billing_id) ==
    IF invoice_id \notin InvoiceIds THEN "not_found"
    ELSE IF client_invoices[invoice_id].status # "draft" THEN "not_draft"
    ELSE IF billing_id \notin BillingIds THEN "not_found"
    ELSE IF prevent_double_billing(billing_id) THEN "double_billing"
    ELSE "ok"

(* add_billing_to_invoice without the check of the invoice's status.      *)
add_billing_outcome_any_status(invoice_id, billing_id) ==
    IF invoice_id \notin InvoiceIds THEN "not_found"
    ELSE IF billing_id \notin BillingIds THEN "not_found"
    ELSE IF \E it \in invoice_billing_items :
                it.invoice_id = invoice_id /\ it.billing_id = billing_id
         THEN "duplicate"
    ELSE IF prevent_double_billing(billing_id) THEN "double_billing"
    ELSE "ok"

(* add_billing_to_invoice: what the handler returns.  The INSERT of the   *)
(* item runs prevent_double_billing.                                      *)
add_billing_outcome(invoice_id, billing_id) ==
    IF invoice_id \notin InvoiceIds THEN "not_found"
    ELSE IF client_invoices[invoice_id].status # "draft" THEN "not_draft"
    ELSE IF billing_id \notin BillingIds THEN "not_found"
    ELSE IF \E it \in invoice_billing_items :
                it.invoice_id = invoice_id /\ it.billing_id = billing_id
         THEN "duplicate"
    ELSE IF prevent_double_billing(billing_id) THEN "double_billing"
    ELSE "ok"

(* The row an INSERT into invoice_billing_items adds.  The table is a bag *)
(* of rows: n numbers the rows of one (invoice, entry) pair, so that a    *)
(* second row for a pair is a row of its own.                             *)
NewItem(invoice_id, billing_id) ==
    [invoice_id |-> invoice_id, billing_id |-> billing_id,
     status |-> "draft",
     n |-> Cardinality({x \in invoice_billing_items :
                           /\ x.invoice_id = invoice_id
                           /\ x.billing_id = billing_id}) + 1]

(* add_billing_to_invoice with the INSERT of the item run before the      *)
(* handler's tests: a refused call leaves its row behind.                 *)
add_billing_insert_first(invoice_id, billing_id) ==
    LET o == add_billing_outcome(invoice_id, billing_id)
    IN  /\ last' = Result("add_billing_to_invoice", o, 0, billing_id,
                          invoice_id)
        /\ IF o \in {"ok", "not_draft", "duplicate"}
           THEN /\ invoice_billing_items' = invoice_billing_items \cup
                       {NewItem(invoice_id, billing_id)}
                /\ UNCHANGED <<billing_entries, client_invoices>>
           ELSE UNCHANGED db

(* The sum of the hours of the entries a set of item rows attaches.       *)
RECURSIVE SumHours(_)
SumHours(items) ==
    IF items = {} THEN 0
    ELSE LET it == CHOOSE x \in items : TRUE
         IN  billing_entries[it.billing_id].billing_hours
                 + SumHours(items \ {it})

(* The hourly rate the server bills at.                                   *)
HourlyRate == 250

(* The recomputation of an invoice's totals that the INSERT of an item    *)
(* fires: the invoices with invoice_id's totals taken from the item rows. *)
update_invoice_totals(invoices, invoice_id, items) ==
    LET h == SumHours({it \in items : it.invoice_id = invoice_id})
    IN  [invoices EXCEPT ![invoice_id].total_hours = h,
                         ![invoice_id].total_amount = h * HourlyRate]

(* The totals the handler reports: its SELECT of the invoice's totals     *)
(* after the INSERT.                                                      *)
reported_totals(invoice_id) ==
    <<client_invoices[invoice_id].total_hours,
      client_invoices[invoice_id].total_amount>>

(* add_billing_to_invoice with the INSERT of the item firing no           *)
(* recomputation of the invoice's totals.                                 *)
add_billing_totals_stale(invoice_id, billing_id) ==
    LET o == add_billing_outcome(invoice_id, billing_id)
    IN  /\ last' = Result("add_billing_to_invoice", o, 0, billing_id,
                          invoice_id)
        /\ IF o = "ok"
           THEN /\ invoice_billing_items' = invoice_billing_items \cup
                       {NewItem(invoice_id, billing_id)}
                /\ UNCHANGED <<billing_entries, client_invoices>>
           ELSE UNCHANGED db

(* add_billing_to_invoice: attach an entry to a draft invoice.            *)
add_billing_to_invoice(invoice_id, billing_id) ==
    LET o == add_billing_outcome(invoice_id, billing_id)
    IN  /\ last' = Result("add_billing_to_invoice", o, 0, billing_id,
                          invoice_id)
        /\ IF o = "ok"
           THEN /\ invoice_billing_items' = invoice_billing_items \cup
                       {NewItem(invoice_id, billing_id)}
                /\ client_invoices' = update_invoice_totals(
                       client_invoices, invoice_id,
                       invoice_billing_items \cup
                           {NewItem(invoice_id, billing_id)})
                /\ UNCHANGED billing_entries
           ELSE UNCHANGED db

AddBillingToInvoice ==
    \E i \in InvoiceArgs, b \in BillingArgs :
        add_billing_to_invoice(i, b) /\ UNCHANGED calls

(* check_invoice_validity: reports the invoice's is_valid column.         *)
check_outcome(invoice_id) ==
    IF invoice_id \notin InvoiceIds THEN "not_found"
    ELSE IF client_invoices[invoice_id].is_valid THEN "valid"
    ELSE "invalid"

check_invoice_validity(invoice_id) ==
    /\ last' = Result("check_invoice_validity", check_outcome(invoice_id),
                      0, 0, invoice_id)
    /\ UNCHANGED db

CheckInvoiceValidity ==
    \E i \in InvoiceArgs : check_invoice_validity(i) /\ UNCHANGED calls

(* enforce_validity_on_submit: TRUE when the trigger raises ABORT because *)
(* a member entry overlaps another entry of its matter that is committed. *)
enforce_validity_on_submit(invoice_id) ==
    \E m \in Members(invoice_id) : \E e \in BillingIds :
        /\ m \in BillingIds
        /\ e # m
        /\ billing_entries[e].matter_id = billing_entries[m].matter_id
        /\ Committed(e)
        /\ HalfOpenOverlap(billing_entries[m].billing_start,
                           billing_entries[m].billing_stop,
                           billing_entries[e].billing_start,
                           billing_entries[e].billing_stop)

(* mark_committed_billing_entries: the items of the submitted invoice     *)
(* after the trigger ran.                                                 *)
mark_committed_billing_entries(invoice_id) ==
    {IF it.invoice_id = invoice_id THEN [it EXCEPT !.status = "committed"]
     ELSE it : it \in invoice_billing_items}

(* submit_invoice without the test of the invoice's is_valid column.      *)
submit_outcome_ignoring_flag(invoice_id) ==
    IF invoice_id \notin InvoiceIds THEN "not_found"
    ELSE IF client_invoices[invoice_id].status # "draft"
         THEN "already_submitted"
    ELSE IF \/ enforce_validity_on_submit(invoice_id)
            \/ \E m \in Members(invoice_id) : prevent_double_billing(m)
         THEN "error"
    ELSE "ok"

(* submit_invoice with the UPDATE of the status firing no trigger that    *)
(* aborts it: the cached flag alone decides.                              *)
submit_outcome_trusting_flag(invoice_id) ==
    IF invoice_id \notin InvoiceIds THEN "not_found"
    ELSE IF client_invoices[invoice_id].status # "draft"
         THEN "already_submitted"
    ELSE IF ~client_invoices[invoice_id].is_valid THEN "invalid"
    ELSE "ok"

(* submit_invoice with no prevent_double_billing on the UPDATE.           *)
submit_outcome_no_double_billing(invoice_id) ==
    IF invoice_id \notin InvoiceIds THEN "not_found"
    ELSE IF client_invoices[invoice_id].status # "draft"
         THEN "already_submitted"
    ELSE IF ~client_invoices[invoice_id].is_valid THEN "invalid"
    ELSE IF enforce_validity_on_submit(invoice_id) THEN "error"
    ELSE "ok"

(* submit_invoice without the check that the invoice is still a draft.    *)
submit_outcome_any_status(invoice_id) ==
    IF invoice_id \notin InvoiceIds THEN "not_found"
    ELSE IF ~client_invoices[invoice_id].is_valid THEN "invalid"
    ELSE IF \/ enforce_validity_on_submit(invoice_id)
            \/ \E m \in Members(invoice_id) : prevent_double_billing(m)
         THEN "error"
    ELSE "ok"

(* submit_invoice: what the handler returns.  The UPDATE of the status    *)
(* runs enforce_validity_on_submit and prevent_double_billing; an ABORT   *)
(* is caught and reported ("error").                                      *)
submit_outcome(invoice_id) ==
    IF invoice_id \notin InvoiceIds THEN "not_found"
    ELSE IF client_invoices[invoice_id].status # "draft"
         THEN "already_submitted"
    ELSE IF ~client_invoices[invoice_id].is_valid THEN "invalid"
    ELSE IF \/ enforce_validity_on_submit(invoice_id)
            \/ \E m \in Members(invoice_id) : prevent_double_billing(m)
         THEN "error"
    ELSE "ok"

(* submit_invoice with the UPDATE of the status firing no                 *)
(* mark_committed_billing_entries: the items keep their status.           *)
submit_invoice_status_only(invoice_id) ==
    LET o == submit_outcome(invoice_id)
    IN  /\ last' = Result("submit_invoice", o, 0, 0, invoice_id)
        /\ IF o = "ok"
           THEN /\ client_invoices' = [client_invoices EXCEPT
                       ![invoice_id].status = "submitted"]
                /\ UNCHANGED <<billing_entries, invoice_billing_items>>
           ELSE UNCHANGED db

(* submit_invoice: draft -> submitted; the UPDATE and the triggers it     *)
(* fires are one transaction.                                             *)
submit_invoice(invoice_id) ==
    LET o == submit_outcome(invoice_id)
    IN  /\ last' = Result("submit_invoice", o, 0, 0, invoice_id)
        /\ IF o = "ok"
           THEN /\ client_invoices' = [client_invoices EXCEPT
                       ![invoice_id].status = "submitted"]
                /\ invoice_billing_items' =
                       mark_committed_billing_entries(invoice_id)
                /\ UNCHANGED billing_entries
           ELSE UNCHANGED db

SubmitInvoice ==
    \E i \in InvoiceArgs : submit_invoice(i) /\ UNCHANGED calls

Next ==
    \/ RecordBillableTime
    \/ UpdateBillingEntry
    \/ CreateInvoice
    \/ AddBillingToInvoice
    \/ CheckInvoiceValidity
    \/ SubmitInvoice

Spec == Init /\ [][Next]_vars

----------------------------------------------------------------------------
(* The server opened on a database file that already holds a draft        *)
(* invoice: its is_valid column has the value the trigger                  *)
(* mark_valid_billing_entries left in it before the update script dropped *)
(* that trigger, which may be either one.                                 *)
InitStored ==
    /\ billing_entries = << >>
    /\ \E flag \in BOOLEAN :
           client_invoices = <<[NewInvoice EXCEPT !.is_valid = flag]>>
    /\ invoice_billing_items = {}
    /\ last = Result("none", "ok", 0, 0, 0)
    /\ calls = [c \in Clients |-> Idle]

SpecStored == InitStored /\ [][Next]_vars

----------------------------------------------------------------------------
(* submit_invoice called by concurrent clients: the handler's SELECT of   *)
(* the invoice row and its UPDATE of the status are two statements, each  *)
(* on a connection of its own, and statements of other calls may run      *)
(* between them.                                                          *)

(* The SELECT and the handler's tests of the row it returns.              *)
submit_read_outcome(invoice_id) ==
    IF invoice_id \notin InvoiceIds THEN "not_found"
    ELSE IF client_invoices[invoice_id].status # "draft"
         THEN "already_submitted"
    ELSE IF ~client_invoices[invoice_id].is_valid THEN "invalid"
    ELSE "proceed"

(* The UPDATE of the status with no trigger aborting it.                  *)
submit_write_unchecked(invoice_id) == "ok"

(* The UPDATE of the status: the triggers it fires run in its             *)
(* transaction, on the rows as they are when it runs.                     *)
submit_write_outcome(invoice_id) ==
    IF \/ enforce_validity_on_submit(invoice_id)
       \/ \E m \in Members(invoice_id) : prevent_double_billing(m)
    THEN "error"
    ELSE "ok"

SubmitRead(c) ==
    \E i \in InvoiceArgs :
        /\ calls[c] = Idle
        /\ LET o == submit_read_outcome(i)
           IN  IF o = "proceed"
               THEN /\ calls' = [calls EXCEPT ![c] =
                           [op |-> "submit_invoice", invoice_id |-> i,
                            billing_id |-> 0]]
                    /\ UNCHANGED <<db, last>>
               ELSE /\ last' = Result("submit_invoice", o, 0, 0, i)
                    /\ UNCHANGED <<db, calls>>

SubmitWrite(c) ==
    /\ calls[c].op = "submit_invoice"
    /\ LET i == calls[c].invoice_id
           o == submit_write_outcome(i)
       IN  /\ last' = Result("submit_invoice", o, 0, 0, i)
           /\ calls' = [calls EXCEPT ![c] = Idle]
           /\ IF o = "ok"
              THEN /\ client_invoices' = [client_invoices EXCEPT
                          ![i].status = "submitted"]
                   /\ invoice_billing_items' =
                          mark_committed_billing_entries(i)
                   /\ UNCHANGED billing_entries
              ELSE UNCHANGED db

(* Two draft invoices whose flags are true, two unbilled entries, and any *)
(* attachment of the entries to the invoices.                             *)
InitRace ==
    /\ \E m1 \in Matters, m2 \in Matters, iv1 \in Intervals,
          iv2 \in Intervals :
           billing_entries = <<NewRow(m1, iv1[1], iv1[2]),
                               NewRow(m2, iv2[1], iv2[2])>>
    /\ invoice_billing_items \in
           SUBSET [invoice_id : 1..2, billing_id : 1..2, status : {"draft"},
                   n : {1}]
    /\ client_invoices =
           update_invoice_totals(
               update_invoice_totals(<<NewInvoice, NewInvoice>>, 1,
                                     invoice_billing_items),
               2, invoice_billing_items)
    /\ last = Result("none", "ok", 0, 0, 0)
    /\ calls = [c \in Clients |-> Idle]

NextRace ==
    \/ \E c \in Clients : SubmitRead(c)
    \/ \E c \in Clients : SubmitWrite(c)

SpecRace == InitRace /\ [][NextRace]_vars

----------------------------------------------------------------------------
(* Invoices built over entries whose hours the caller supplied.           *)

MaxHours == 2

(* The billing_hours a caller of record_billable_time may supply.         *)
Hours == 1..MaxHours

(* Two stored entries of matter 1, with supplied hours, and no invoice.   *)
InitTotals ==
    /\ \E h1 \in Hours, h2 \in Hours :
           billing_entries =
               <<[NewRow(1, 0, 1) EXCEPT !.billing_hours = h1],
                 [NewRow(1, 1, 2) EXCEPT !.billing_hours = h2]>>
    /\ client_invoices = << >>
    /\ invoice_billing_items = {}
    /\ last = Result("none", "ok", 0, 0, 0)
    /\ calls = [c \in Clients |-> Idle]

NextTotals ==
    \/ CreateInvoice
    \/ AddBillingToInvoice
    \/ SubmitInvoice

SpecTotals == InitTotals /\ [][NextTotals]_vars

----------------------------------------------------------------------------
(* The triggers' overlap test applied to intervals of positive duration.  *)

MaxPoint == 5

(* The intervals with start < stop over the points 0..MaxPoint.           *)
ProperIntervals ==
    {iv \in (0..MaxPoint) \X (0..MaxPoint) : iv[1] < iv[2]}

(* What a trigger run on the bounds (ns, ne) did.                         *)
TriggerResult(op, aborted, ns, ne) ==
    [op |-> op, outcome |-> IF aborted THEN "abort" ELSE "ok",
     billing_start |-> ns, billing_stop |-> ne]

(* One committed entry E (entry 1, on the submitted invoice 1) and one    *)
(* entry that is on no invoice.                                           *)
InitOverlap ==
    /\ \E iv \in ProperIntervals :
           billing_entries = <<NewRow(1, iv[1], iv[2]), NewRow(1, 0, 1)>>
    /\ client_invoices =
           <<[NewInvoice EXCEPT !.status = "submitted",
                                !.total_hours = DefaultHours,
                                !.total_amount = DefaultHours * HourlyRate]>>
    /\ invoice_billing_items =
           {[invoice_id |-> 1, billing_id |-> 1, status |-> "committed",
             n |-> 1]}
    /\ last = Result("none", "ok", 0, 0, 0)
    /\ calls = [c \in Clients |-> Idle]

(* prevent_overlap_before_insert run on a new row with bounds N.          *)
ApplyInsertTrigger ==
    \E iv \in ProperIntervals :
        /\ last' = TriggerResult("prevent_overlap_before_insert",
                        prevent_overlap_before_insert(
                            NewRow(1, iv[1], iv[2])),
                        iv[1], iv[2])
        /\ UNCHANGED <<db, calls>>

(* prevent_overlap_before_update run on entry 2 given the bounds N.       *)
ApplyUpdateTrigger ==
    \E iv \in ProperIntervals :
        /\ last' = TriggerResult("prevent_overlap_before_update",
                        prevent_overlap_before_update(
                            UpdatedRow(2, iv[1], iv[2])),
                        iv[1], iv[2])
        /\ UNCHANGED <<db, calls>>

NextOverlap ==
    \/ ApplyInsertTrigger
    \/ ApplyUpdateTrigger

SpecOverlap == InitOverlap /\ [][NextOverlap]_vars

----------------------------------------------------------------------------
(* add_billing_to_invoice called by concurrent clients: the handler's     *)
(* three SELECTs and its INSERT are four statements, each on a connection *)
(* of its own, and statements of other calls may run between them.  A     *)
(* call in flight is at the statement its op names.                       *)

AttachCall(stage, invoice_id, billing_id) ==
    [op |-> stage, invoice_id |-> invoice_id, billing_id |-> billing_id]

(* The SELECT of the invoice row and the tests of its status.             *)
AttachReadInvoice(c) ==
    \E i \in InvoiceArgs, b \in BillingArgs :
        /\ calls[c] = Idle
        /\ IF i \notin InvoiceIds
           THEN /\ last' = Result("add_billing_to_invoice", "not_found", 0,
                                  b, i)
                /\ UNCHANGED <<db, calls>>
           ELSE IF client_invoices[i].status # "draft"
           THEN /\ last' = Result("add_billing_to_invoice", "not_draft", 0,
                                  b, i)
                /\ UNCHANGED <<db, calls>>
           ELSE /\ calls' = [calls EXCEPT ![c] =
                                 AttachCall("select_billing", i, b)]
                /\ UNCHANGED <<db, last>>

(* The SELECT of the billing entry.                                       *)
AttachReadBilling(c) ==
    /\ calls[c].op = "select_billing"
    /\ IF calls[c].billing_id \notin BillingIds
       THEN /\ last' = Result("add_billing_to_invoice", "not_found", 0,
                              calls[c].billing_id, calls[c].invoice_id)
            /\ calls' = [calls EXCEPT ![c] = Idle]
            /\ UNCHANGED db
       ELSE /\ calls' = [calls EXCEPT ![c].op = "select_existing"]
            /\ UNCHANGED <<db, last>>

(* The SELECT of the rows of the same (invoice, entry) pair.              *)
AttachReadExisting(c) ==
    /\ calls[c].op = "select_existing"
    /\ IF \E it \in invoice_billing_items :
              /\ it.invoice_id = calls[c].invoice_id
              /\ it.billing_id = calls[c].billing_id
       THEN /\ last' = Result("add_billing_to_invoice", "duplicate", 0,
                              calls[c].billing_id, calls[c].invoice_id)
            /\ calls' = [calls EXCEPT ![c] = Idle]
            /\ UNCHANGED db
       ELSE /\ calls' = [calls EXCEPT ![c].op = "insert_item"]
            /\ UNCHANGED <<db, last>>

(* The INSERT of the item, with the triggers it fires, and the report of  *)
(* the totals (a SELECT, which changes nothing).                          *)
AttachInsert(c) ==
    /\ calls[c].op = "insert_item"
    /\ LET i == calls[c].invoice_id
           b == calls[c].billing_id
       IN  /\ calls' = [calls EXCEPT ![c] = Idle]
           /\ IF prevent_double_billing(b)
              THEN /\ last' = Result("add_billing_to_invoice",
                                     "double_billing", 0, b, i)
                   /\ UNCHANGED db
              ELSE /\ last' = Result("add_billing_to_invoice", "ok", 0, b,
                                     i)
                   /\ invoice_billing_items' = invoice_billing_items \cup
                          {NewItem(i, b)}
                   /\ client_invoices' =
                          update_invoice_totals(client_invoices, i,
                              invoice_billing_items \cup {NewItem(i, b)})
                   /\ UNCHANGED billing_entries

(* Two draft invoices whose flags are true, two unbilled entries of one   *)
(* matter that do not overlap, and any attachment of the entries to the   *)
(* invoices.                                                              *)
InitAttachRace ==
    /\ billing_entries = <<NewRow(1, 0, 1), NewRow(1, 1, 2)>>
    /\ invoice_billing_items \in
           SUBSET [invoice_id : 1..2, billing_id : 1..2, status : {"draft"},
                   n : {1}]
    /\ client_invoices =
           update_invoice_totals(
               update_invoice_totals(<<NewInvoice, NewInvoice>>, 1,
                                     invoice_billing_items),
               2, invoice_billing_items)
    /\ last = Result("none", "ok", 0, 0, 0)
    /\ calls = [c \in Clients |-> Idle]

NextAttachRace ==
    \/ \E c \in Clients : AttachReadInvoice(c)
    \/ \E c \in Clients : AttachReadBilling(c)
    \/ \E c \in Clients : AttachReadExisting(c)
    \/ \E c \in Clients : AttachInsert(c)
    \/ \E c \in Clients : SubmitRead(c)
    \/ \E c \in Clients : SubmitWrite(c)

SpecAttachRace == InitAttachRace /\ [][NextAttachRace]_vars

----------------------------------------------------------------------------
(* execute_script: a script of UPDATEs of billing entries' bounds, run by *)
(* executescript on a connection of its own.                              *)

MaxScriptLen == 2

(* A statement of a script: UPDATE billing_entries SET billing_start,     *)
(* billing_stop WHERE billing_id.                                         *)
Statements ==
    {[billing_id |-> b, billing_start |-> iv[1], billing_stop |-> iv[2]] :
        b \in BillingIds, iv \in Intervals}

Scripts == UNION {[1..n -> Statements] : n \in 1..MaxScriptLen}

(* prevent_overlap_before_update for a statement run when the entries     *)
(* are as the statements before it left them.                             *)
StatementAborts(entries, st) ==
    \E b \in CommittedJoin :
        /\ b # st.billing_id
        /\ OverlapConditions(st.billing_start, st.billing_stop,
                             entries[b].billing_start,
                             entries[b].billing_stop)

(* executescript: the statements run in order, each one applied as soon   *)
(* as it has run, up to the first that raises.                            *)
RECURSIVE executescript(_, _)
executescript(entries, script) ==
    IF script = << >> THEN [entries |-> entries, failed |-> FALSE]
    ELSE LET st == Head(script)
         IN  IF StatementAborts(entries, st)
             THEN [entries |-> entries, failed |-> TRUE]
             ELSE executescript(
                      [entries EXCEPT
                           ![st.billing_id].billing_start = st.billing_start,
                           ![st.billing_id].billing_stop = st.billing_stop],
                      Tail(script))

(* _execute_script.  executescript opens no transaction: a script that    *)
(* has no BEGIN of its own runs statement by statement in autocommit      *)
(* mode, and what ran before a failing statement is already committed     *)
(* when the error is re-raised.  A script that opens a transaction        *)
(* (has_begin) and fails leaves it open, and closing the connection       *)
(* rolls it back.                                                         *)
execute_script(script, has_begin) ==
    LET r == executescript(billing_entries, script)
    IN  /\ last' = Result("execute_script",
                          IF r.failed THEN "error" ELSE "success", 0, 0, 0)
        /\ billing_entries' = IF r.failed /\ has_begin
                                 THEN billing_entries
                                 ELSE r.entries
        /\ UNCHANGED <<client_invoices, invoice_billing_items>>

ExecuteScript ==
    \E script \in Scripts, has_begin \in BOOLEAN :
        /\ execute_script(script, has_begin)
        /\ UNCHANGED calls

(* Entry 1 committed (on the submitted invoice 1) and entry 2 on no       *)
(* invoice.                                                               *)
InitScript ==
    /\ \E iv1 \in Intervals, iv2 \in Intervals :
           billing_entries = <<NewRow(1, iv1[1], iv1[2]),
                               NewRow(1, iv2[1], iv2[2])>>
    /\ client_invoices =
           <<[NewInvoice EXCEPT !.status = "submitted",
                                !.total_hours = DefaultHours,
                                !.total_amount = DefaultHours * HourlyRate]>>
    /\ invoice_billing_items =
           {[invoice_id |-> 1, billing_id |-> 1, status |-> "committed",
             n |-> 1]}
    /\ last = Result("none", "ok", 0, 0, 0)
    /\ calls = [c \in Clients |-> Idle]

NextScript ==
    \/ ExecuteScript
    \/ UpdateBillingEntry

SpecScript == InitScript /\ [][NextScript]_vars

----------------------------------------------------------------------------
(* The timestamp triggers on billing_entries, a table with a created and  *)
(* a last_modified column.  DATETIME('now') is an input of each           *)
(* statement: a time not before that of the statement before it.          *)

MaxNow == 2

Stamps == 0..MaxNow

(* A column holding NULL.                                                 *)
Null == -1

(* The values an INSERT may give a timestamp column: none, or a time.     *)
StampArgs == {Null} \cup Stamps

(* The last statement: what it was, what it returned, the row it named,   *)
(* its DATETIME('now') and the timestamps it supplied.                    *)
StampResult(op, outcome, b, t, c, l) ==
    [op |-> op, outcome |-> outcome, billing_id |-> b, now |-> t,
     created |-> c, last_modified |-> l]

(* The row of an INSERT that supplies created c and last_modified l.      *)
StampedRow(matter_id, billing_start, billing_stop, c, l) ==
    [matter_id |-> matter_id, billing_start |-> billing_start,
     billing_stop |-> billing_stop, billing_hours |-> DefaultHours,
     status |-> "unbilled", created |-> c, last_modified |-> l]

(* The nested UPDATE of a timestamp trigger with the guard of inserts     *)
(* run on it: the row's own committed bounds count against it.            *)
timestamp_update_guard_as_insert(billing_id, billing_start, billing_stop) ==
    prevent_overlap_before_insert(
        [billing_id |-> billing_id, billing_start |-> billing_start,
         billing_stop |-> billing_stop])

(* The UPDATE in the body of a timestamp trigger is an UPDATE of          *)
(* billing_entries: it runs prevent_overlap_before_update on the row as   *)
(* the triggering statement wrote it.  TRUE when that aborts.             *)
timestamp_update_guard(billing_id, billing_start, billing_stop) ==
    prevent_overlap_before_update(
        [billing_id |-> billing_id, billing_start |-> billing_start,
         billing_stop |-> billing_stop])

(* <table>_update_modified_timestamp: AFTER UPDATE, of any column.  It   *)
(* does not fire on its own UPDATE (recursive triggers are off).          *)
update_modified_timestamp(row, t) == [row EXCEPT !.last_modified = t]

(* set_created_timestamp without its WHEN clause.                         *)
set_created_always(row, t) ==
    update_modified_timestamp([row EXCEPT !.created = t], t)

(* <table>_set_created_timestamp: AFTER INSERT, WHEN NEW.created IS NULL. *)
(* Its UPDATE fires update_modified_timestamp.                            *)
set_created_timestamp(row, t) ==
    IF row.created = Null
    THEN update_modified_timestamp([row EXCEPT !.created = t], t)
    ELSE row

(* <table>_insert_modified_timestamp: AFTER INSERT, WHEN                  *)
(* NEW.last_modified IS NULL, on the row as the triggers before it left   *)
(* it.  Its UPDATE fires update_modified_timestamp.                       *)
insert_modified_timestamp(new, row, t) ==
    IF new.last_modified = Null
    THEN update_modified_timestamp(
             update_modified_timestamp(row, t), t)
    ELSE row

(* The row an accepted INSERT of new leaves, after its AFTER INSERT       *)
(* triggers.                                                              *)
InsertedRow(new, t) ==
    insert_modified_timestamp(new, set_created_timestamp(new, t), t)

(* What an INSERT of new returns: the overlap trigger may abort it, and   *)
(* so may the overlap trigger run by a timestamp trigger's UPDATE.        *)
insert_stamped_outcome(new) ==
    IF prevent_overlap_before_insert(new) THEN "conflict"
    ELSE IF /\ (new.created = Null \/ new.last_modified = Null)
            /\ timestamp_update_guard(Len(billing_entries) + 1,
                                      new.billing_start, new.billing_stop)
         THEN "conflict_nested"
    ELSE "ok"

(* write_query with an INSERT INTO billing_entries at time t.             *)
insert_stamped_entry(new, t) ==
    LET o == insert_stamped_outcome(new)
    IN  IF o = "ok"
        THEN /\ Len(billing_entries) < MaxEntries
             /\ billing_entries' = Append(billing_entries,
                                          InsertedRow(new, t))
             /\ last' = StampResult("insert_entry", o,
                                    Len(billing_entries) + 1, t,
                                    new.created, new.last_modified)
             /\ UNCHANGED <<client_invoices, invoice_billing_items>>
        ELSE /\ last' = StampResult("insert_entry", o, 0, t, new.created,
                                    new.last_modified)
             /\ UNCHANGED db

InsertStampedEntry ==
    \E iv \in Intervals, c \in StampArgs, l \in StampArgs, t \in Stamps :
        /\ t >= last.now
        /\ insert_stamped_entry(StampedRow(1, iv[1], iv[2], c, l), t)
        /\ UNCHANGED calls

(* What an UPDATE of the bounds of a row returns, the UPDATE of           *)
(* update_modified_timestamp included.                                    *)
update_stamped_outcome(billing_id, new_start, new_stop) ==
    IF update_outcome(billing_id, new_start, new_stop) # "ok"
    THEN update_outcome(billing_id, new_start, new_stop)
    ELSE IF timestamp_update_guard(billing_id, new_start, new_stop)
         THEN "conflict_nested"
    ELSE "ok"

(* write_query with an UPDATE of one billing entry's bounds (which may be *)
(* the bounds it has) at time t.                                          *)
update_stamped_entry(billing_id, new_start, new_stop, t) ==
    LET o == update_stamped_outcome(billing_id, new_start, new_stop)
    IN  /\ last' = StampResult("update_entry", o, billing_id, t, Null, Null)
        /\ IF o = "ok"
           THEN /\ billing_entries' = [billing_entries EXCEPT
                       ![billing_id] = update_modified_timestamp(
                           [@ EXCEPT !.billing_start = new_start,
                                     !.billing_stop = new_stop], t)]
                /\ UNCHANGED <<client_invoices, invoice_billing_items>>
           ELSE UNCHANGED db

UpdateStampedEntry ==
    \E b \in BillingArgs, iv \in Intervals, t \in Stamps :
        /\ b \notin BillingIds => iv = <<0, 0>>
        /\ t >= last.now
        /\ update_stamped_entry(b, iv[1], iv[2], t)
        /\ UNCHANGED calls

(* Entry 1, inserted at time 0, committed on the submitted invoice 1.     *)
InitTimestamps ==
    /\ \E iv \in Intervals :
           billing_entries = <<StampedRow(1, iv[1], iv[2], 0, 0)>>
    /\ client_invoices =
           <<[NewInvoice EXCEPT !.status = "submitted",
                                !.total_hours = DefaultHours,
                                !.total_amount = DefaultHours * HourlyRate]>>
    /\ invoice_billing_items =
           {[invoice_id |-> 1, billing_id |-> 1, status |-> "committed",
             n |-> 1]}
    /\ last = StampResult("none", "ok", 0, 0, Null, Null)
    /\ calls = [c \in Clients |-> Idle]

NextTimestamps ==
    \/ InsertStampedEntry
    \/ UpdateStampedEntry

SpecTimestamps == InitTimestamps /\ [][NextTimestamps]_vars

----------------------------------------------------------------------------
(* Vocabulary of the properties.                                           *)

CommittedEntries == {b \in BillingIds : Committed(b)}

(* Entries a and b overlap as half-open intervals.                         *)
EntriesOverlap(a, b) ==
    HalfOpenOverlap(billing_entries[a].billing_start,
                    billing_entries[a].billing_stop,
                    billing_entries[b].billing_start,
                    billing_entries[b].billing_stop)

(* The interval (s, e) overlaps entry b as half-open intervals.            *)
OverlapsEntry(s, e, b) ==
    HalfOpenOverlap(s, e, billing_entries[b].billing_start,
                    billing_entries[b].billing_stop)

(* C1: no two distinct committed entries of the same matter overlap        *)
(* (A.start < B.stop and B.start < A.stop), in every reachable state.      *)
C1_NoCommittedOverlap ==
    \A a \in CommittedEntries, b \in CommittedEntries :
        (a # b /\ billing_entries[a].matter_id = billing_entries[b].matter_id)
            => ~EntriesOverlap(a, b)

(* C2: in every reachable state, the insert of an entry of matter m whose *)
(* bounds overlap a committed entry of matter m, or equal a committed     *)
(* entry's bounds, is rejected with the conflict error.                   *)
C2_InsertConflictRejected ==
    \A m \in Matters, iv \in Intervals :
        (\E e \in CommittedEntries :
            /\ billing_entries[e].matter_id = m
            /\ \/ OverlapsEntry(iv[1], iv[2], e)
               \/ /\ billing_entries[e].billing_start = iv[1]
                  /\ billing_entries[e].billing_stop = iv[2])
        => record_outcome(m, TRUE, iv[1], iv[2]) = "conflict"

(* An insert was rejected with the conflict error while an entry of the    *)
(* matter it was made for is committed.                                    *)
C2_Witness ==
    /\ last.op = "record_billable_time"
    /\ last.outcome = "conflict"
    /\ \E e \in CommittedEntries : billing_entries[e].matter_id = last.matter_id

(* C3: in every reachable state, the insert of an entry of matter m that  *)
(* is adjacent to a committed entry of matter m (its start is that        *)
(* entry's stop, or its stop that entry's start) and overlaps no          *)
(* committed entry succeeds.                                              *)
C3_AdjacentInsertAccepted ==
    \A m \in Matters, iv \in Intervals :
        (/\ \E e \in CommittedEntries :
                /\ billing_entries[e].matter_id = m
                /\ \/ iv[1] = billing_entries[e].billing_stop
                   \/ iv[2] = billing_entries[e].billing_start
         /\ \A e \in CommittedEntries : ~OverlapsEntry(iv[1], iv[2], e))
        => record_outcome(m, TRUE, iv[1], iv[2]) = "ok"

C5_ZeroDurationNeverConflicts ==
    /\ \A m \in Matters, t \in Times :
           record_outcome(m, TRUE, t, t) # "conflict"
    /\ \A m \in Matters, iv \in Intervals :
           record_outcome(m, TRUE, iv[1], iv[2]) = "conflict"
           => \E e \in CommittedEntries :
                  /\ billing_entries[e].billing_start
                         < billing_entries[e].billing_stop
                  /\ OverlapConditions(iv[1], iv[2],
                                       billing_entries[e].billing_start,
                                       billing_entries[e].billing_stop)
    /\ \A b \in BillingIds, iv \in Intervals :
           update_outcome(b, iv[1], iv[2]) = "conflict"
           => \E e \in CommittedEntries \ {b} :
                  /\ billing_entries[e].billing_start
                         < billing_entries[e].billing_stop
                  /\ OverlapConditions(iv[1], iv[2],
                                       billing_entries[e].billing_start,
                                       billing_entries[e].billing_stop)

(* C6: in every reachable state, the update of a committed entry b to     *)
(* bounds that overlap b's stored interval and no other committed entry   *)
(* is accepted, and an update to bounds that overlap another committed    *)
(* entry is rejected with the conflict error, whatever that entry's       *)
(* bounds are.                                                            *)
C6_UpdateExcludesSelfByIdentity ==
    \A b \in CommittedEntries, iv \in Intervals :
        /\ (/\ OverlapsEntry(iv[1], iv[2], b)
            /\ \A e \in CommittedEntries \ {b} :
                   ~OverlapsEntry(iv[1], iv[2], e))
           => update_outcome(b, iv[1], iv[2]) = "ok"
        /\ (\E e \in CommittedEntries \ {b} : OverlapsEntry(iv[1], iv[2], e))
           => update_outcome(b, iv[1], iv[2]) = "conflict"

(* C7: in every reachable state, an insert or update whose bounds overlap *)
(* some entry that is not committed and no committed entry (other than    *)
(* the updated entry) succeeds.                                           *)
C7_OnlyCommittedCompared ==
    /\ \A m \in Matters, iv \in Intervals :
           (/\ \E u \in BillingIds \ CommittedEntries :
                   OverlapsEntry(iv[1], iv[2], u)
            /\ \A e \in CommittedEntries : ~OverlapsEntry(iv[1], iv[2], e))
           => record_outcome(m, TRUE, iv[1], iv[2]) = "ok"
    /\ \A b \in BillingIds, iv \in Intervals :
           (/\ \E u \in BillingIds \ (CommittedEntries \cup {b}) :
                   OverlapsEntry(iv[1], iv[2], u)
            /\ \A e \in CommittedEntries \ {b} :
                   ~OverlapsEntry(iv[1], iv[2], e))
           => update_outcome(b, iv[1], iv[2]) = "ok"

(* C8: every insert or update of a billing entry that ends with the       *)
(* conflict error leaves all three tables exactly as they were.           *)
C8_RejectedWriteChangesNothing ==
    [][(/\ last'.op \in {"record_billable_time", "update_billing_entry"}
        /\ last'.outcome = "conflict")
       => UNCHANGED db]_vars

(* An update of an existing entry was rejected with the conflict error.   *)
C8_Witness ==
    /\ last.op = "update_billing_entry"
    /\ last.outcome = "conflict"
    /\ last.billing_id \in BillingIds

(* C9: in every reachable state, an item's status is committed exactly    *)
(* when its invoice's status is submitted.                                *)
C9_SubmitAtomic ==
    \A it \in invoice_billing_items :
        /\ it.invoice_id \in InvoiceIds
        /\ (it.status = "committed")
               <=> (client_invoices[it.invoice_id].status = "submitted")

(* A submit of an invoice with two member entries succeeded while another *)
(* invoice with a member is still a draft.                                *)
C9_Witness ==
    /\ last.op = "submit_invoice"
    /\ last.outcome = "ok"
    /\ Cardinality(Members(last.invoice_id)) = 2
    /\ \E i \in InvoiceIds :
           /\ client_invoices[i].status = "draft"
           /\ Members(i) # {}

(* C10: once an invoice is submitted it stays submitted, and every later  *)
(* submit_invoice on it ends with the already-submitted error and leaves  *)
(* all three tables as they were.                                         *)
C10_SubmittedTerminal ==
    [][\A i \in InvoiceIds :
          client_invoices[i].status = "submitted"
          => /\ client_invoices'[i].status = "submitted"
             /\ (last'.op = "submit_invoice" /\ last'.invoice_id = i)
                => (last'.outcome = "already_submitted" /\ UNCHANGED db)]_vars

(* A submit of an already submitted invoice was refused.                  *)
C10_Witness ==
    /\ last.op = "submit_invoice"
    /\ last.outcome = "already_submitted"
    /\ last.invoice_id \in InvoiceIds
    /\ client_invoices[last.invoice_id].status = "submitted"

(* C11: every submit_invoice on a draft invoice whose is_valid column is  *)
(* not true ends with the validation refusal and leaves all three tables  *)
(* as they were: the invoice still a draft, its items and membership      *)
(* unchanged.                                                             *)
C11_InvalidSubmitRefused ==
    [][\A i \in InvoiceIds :
          (/\ client_invoices[i].status = "draft"
           /\ ~client_invoices[i].is_valid
           /\ last'.op = "submit_invoice"
           /\ last'.invoice_id = i)
          => (last'.outcome = "invalid" /\ UNCHANGED db)]_vars

(* A submit of a draft invoice that has a member and whose flag is not    *)
(* true was refused.                                                      *)
C11_Witness ==
    /\ last.op = "submit_invoice"
    /\ last.outcome = "invalid"
    /\ last.invoice_id \in InvoiceIds
    /\ client_invoices[last.invoice_id].status = "draft"
    /\ Members(last.invoice_id) # {}
    /\ \A it \in invoice_billing_items :
           it.invoice_id = last.invoice_id => it.status = "draft"

C14_SubmittedMembershipFrozen ==
    [][\A i \in InvoiceIds :
          client_invoices[i].status = "submitted"
          => /\ {it \in invoice_billing_items' : it.invoice_id = i}
                    = {it \in invoice_billing_items : it.invoice_id = i}
             /\ (last'.op = "add_billing_to_invoice" /\ last'.invoice_id = i)
                => (last'.outcome = "not_draft" /\ UNCHANGED db)]_vars

(* The attachment of an existing entry, not yet on the invoice, to a      *)
(* submitted invoice was refused.                                         *)
C14_Witness ==
    /\ last.op = "add_billing_to_invoice"
    /\ last.outcome = "not_draft"
    /\ last.billing_id \in BillingIds
    /\ client_invoices[last.invoice_id].status = "submitted"
    /\ last.billing_id \notin Members(last.invoice_id)

(* C15 as stated: in every reachable state, attaching an entry to an      *)
(* invoice it is already attached to is refused with the duplicate        *)
(* error, and no (invoice, entry) pair has two items.                     *)
C15_DuplicateAlwaysDuplicateError ==
    /\ \A i \in InvoiceIds : \A b \in Members(i) :
           add_billing_outcome(i, b) = "duplicate"
    /\ \A x \in invoice_billing_items, y \in invoice_billing_items :
           (x.invoice_id = y.invoice_id /\ x.billing_id = y.billing_id)
           => x = y

(* C15 as amended: attaching an entry to an invoice it is already         *)
(* attached to is refused, with the duplicate error when the invoice is a *)
(* draft and with the non-draft error when it is submitted, and no        *)
(* (invoice, entry) pair has two items.                                   *)
C15_DuplicateRefused ==
    /\ \A i \in InvoiceIds : \A b \in Members(i) :
           add_billing_outcome(i, b) =
               IF client_invoices[i].status = "draft" THEN "duplicate"
               ELSE "not_draft"
    /\ \A x \in invoice_billing_items, y \in invoice_billing_items :
           (x.invoice_id = y.invoice_id /\ x.billing_id = y.billing_id)
           => x = y

(* The attachment of an entry to a draft invoice that already holds it    *)
(* was refused with the duplicate error.                                  *)
C15_Witness ==
    /\ last.op = "add_billing_to_invoice"
    /\ last.outcome = "duplicate"
    /\ last.billing_id \in Members(last.invoice_id)
    /\ client_invoices[last.invoice_id].status = "draft"

(* The submitted invoices entry b is attached to.                         *)
SubmittedInvoicesOf(b) ==
    {i \in InvoiceIds : /\ client_invoices[i].status = "submitted"
                        /\ b \in Members(i)}

Conflicts(i) ==
    {pair \in Members(i) \X BillingIds :
        /\ pair[1] # pair[2]
        /\ billing_entries[pair[1]].matter_id
               = billing_entries[pair[2]].matter_id
        /\ SubmittedInvoicesOf(pair[2]) \ {i} # {}
        /\ EntriesOverlap(pair[1], pair[2])}

(* C17: in every reachable state check_invoice_validity(I) reports the    *)
(* invoice valid exactly when no member entry of I overlaps an entry of   *)
(* the same matter committed through a different, submitted invoice.      *)
C17_CheckReportsCurrentConflicts ==
    \A i \in InvoiceIds :
        (check_outcome(i) = "valid") <=> (Conflicts(i) = {})

(* C18: for overlapping entries E1 on invoice I1 and E2 on draft invoice  *)
(* I2, of one matter, check_invoice_validity(I2) reports valid while I1   *)
(* is a draft and nothing is committed, and reports invalid in every      *)
(* state where I1 is submitted.                                           *)
C18_ValidityFlipsOnOtherSubmit ==
    \A i1 \in InvoiceIds, i2 \in InvoiceIds :
        (/\ i1 # i2
         /\ client_invoices[i2].status = "draft"
         /\ \E e1 \in Members(i1), e2 \in Members(i2) :
                /\ e1 # e2
                /\ billing_entries[e1].matter_id = billing_entries[e2].matter_id
                /\ EntriesOverlap(e1, e2))
        => /\ (client_invoices[i1].status = "draft" /\ CommittedEntries = {})
                  => check_outcome(i2) = "valid"
           /\ client_invoices[i1].status = "submitted"
                  => check_outcome(i2) = "invalid"

(* C19: in every reachable state the entries the overlap triggers join    *)
(* (item committed, invoice submitted) are exactly the entries attached   *)
(* by any item to a submitted invoice.                                    *)
C19_GuardSetIsTrackerSet ==
    CommittedJoin = CommittedEntries

(* A submit succeeded and left one entry committed and another entry      *)
(* attached to an invoice that is still a draft.                          *)
C19_Witness ==
    /\ last.op = "submit_invoice"
    /\ last.outcome = "ok"
    /\ CommittedJoin # {}
    /\ \E it \in invoice_billing_items :
           /\ it.billing_id \notin CommittedJoin
           /\ client_invoices[it.invoice_id].status = "draft"

(* C20: in every reachable state an entry's status column is unbilled     *)
(* when no item attaches it, committed when it is attached to a submitted *)
(* invoice, and draft when it is attached to draft invoices only.         *)
C20_EntryStatusFollowsLifecycle ==
    \A b \in BillingIds :
        billing_entries[b].status =
            IF Committed(b) THEN "committed"
            ELSE IF \E it \in invoice_billing_items : it.billing_id = b
                 THEN "draft"
            ELSE "unbilled"

(* C21: in every reachable state, no update of a committed entry that     *)
(* changes its start or its stop is accepted.                             *)
C21_CommittedBoundsImmutable ==
    \A b \in CommittedEntries, iv \in Intervals :
        update_outcome(b, iv[1], iv[2]) = "ok"
        => /\ iv[1] = billing_entries[b].billing_start
           /\ iv[2] = billing_entries[b].billing_stop

C23_ReturnedIdIsNewRow ==
    /\ (last.op = "create_invoice" /\ last.outcome = "ok")
           => last.invoice_id = Len(client_invoices)
    /\ (last.op = "record_billable_time" /\ last.outcome = "ok")
           => last.billing_id = Len(billing_entries)

C27_ThreeWayTestIsHalfOpenOverlap ==
    /\ \A n \in ProperIntervals, e \in ProperIntervals :
           OverlapConditions(n[1], n[2], e[1], e[2])
               <=> HalfOpenOverlap(n[1], n[2], e[1], e[2])
    /\ last.op \in {"prevent_overlap_before_insert",
                    "prevent_overlap_before_update"}
           => ((last.outcome = "abort")
                  <=> HalfOpenOverlap(last.billing_start, last.billing_stop,
                                      billing_entries[1].billing_start,
                                      billing_entries[1].billing_stop))

(* A trigger aborted on bounds N that strictly contain the committed      *)
(* entry's.                                                               *)
C27_Witness ==
    /\ last.op = "prevent_overlap_before_update"
    /\ last.outcome = "abort"
    /\ last.billing_start < billing_entries[1].billing_start
    /\ billing_entries[1].billing_stop < last.billing_stop

(* C28: in every reachable state whose entries all have positive         *)
(* duration, an update of an entry that leaves its start and stop as they *)
(* are is not rejected by the overlap trigger.                            *)
C28_SameBoundsUpdateNeverRejected ==
    (\A b \in BillingIds :
        billing_entries[b].billing_start < billing_entries[b].billing_stop)
    => \A b \in BillingIds :
           update_outcome(b, billing_entries[b].billing_start,
                          billing_entries[b].billing_stop) # "conflict"

(* C29: under every interleaving of the statements of concurrent          *)
(* add_billing_to_invoice and submit_invoice calls, a submitted invoice   *)
(* holds no item added after its submission (every item of a submitted    *)
(* invoice was there at the submit and is committed) and no (invoice,     *)
(* entry) pair has a second item.                                         *)
C29_AttachRaceSafe ==
    \A it \in invoice_billing_items :
        /\ it.n = 1
        /\ client_invoices[it.invoice_id].status = "submitted"
               => it.status = "committed"

(* C30: a call of execute_script that re-raises an error leaves the       *)
(* tables as they were before the call: the statements that ran before    *)
(* the failing one are rolled back.                                       *)
C30_ScriptAllOrNothing ==
    [][(last'.op = "execute_script" /\ last'.outcome = "error")
           => db' = db]_vars

(* C25: an insert that supplies no created leaves created at the time of  *)
(* the insert, an insert that supplies one leaves the supplied value,     *)
(* and no statement changes the created of a row that exists.             *)
C25_CreatedSetOnceAtInsert ==
    [][/\ \A b \in BillingIds :
              billing_entries'[b].created = billing_entries[b].created
       /\ (last'.op = "insert_entry" /\ last'.outcome = "ok")
              => billing_entries'[last'.billing_id].created =
                     IF last'.created = Null THEN last'.now
                     ELSE last'.created]_vars

(* An entry whose insert supplied a created time later than the insert    *)
(* has been updated and keeps it.                                         *)
C25_Witness ==
    /\ last.op = "update_entry"
    /\ last.outcome = "ok"
    /\ last.billing_id = 2
    /\ billing_entries[2].created > last.now

(* C26: an accepted update of a row leaves its last_modified at the time  *)
(* of the update, a rejected one leaves the tables as they were, and the  *)
(* update a timestamp trigger runs never aborts a statement the overlap   *)
(* triggers accepted.                                                     *)
C26_LastModifiedFollowsUpdates ==
    [][/\ (last'.op = "update_entry" /\ last'.outcome = "ok")
              => billing_entries'[last'.billing_id].last_modified =
                     last'.now
       /\ (last'.op = "update_entry" /\ last'.outcome # "ok")
              => db' = db
       /\ last'.outcome # "conflict_nested"]_vars

(* The bounds of the committed entry were updated at a later time than    *)
(* its insert.                                                            *)
C26_Witness ==
    /\ last.op = "update_entry"
    /\ last.outcome = "ok"
    /\ last.billing_id = 1
    /\ Committed(1)
    /\ billing_entries[1].created < billing_entries[1].last_modified

====
